---- MODULE Spec2Model ----
(***************************************************************************)
(* Text-width comparison views of vue-playground.                          *)
(*                                                                         *)
(* Two Vue views are modelled over their mounted lifetime: the             *)
(* single-field comparison view (one textarea, bars) and the multi-field   *)
(* comparison view (three textareas, overflow flag).  A text is a sequence *)
(* of Unicode code points.  The width the host renders for a line is the   *)
(* sum of the advances of its code points in the font in use.  An `async`  *)
(* measureWidth call is a pass queued behind `await nextTick()`: the       *)
(* handler that calls it returns first, the body runs later.               *)
(***************************************************************************)
EXTENDS Integers, Sequences, FiniteSets, TLC

VARIABLES
    route,                 \* which view the router has mounted
    sFontSignal,           \* single view: document.fonts.load promise
    sFontLoaded,           \* single view: fontLoaded
    inputText,             \* single view: inputText
    sReferenceCharCount,   \* single view: referenceCharCount
    sReferenceWidth,       \* single view: referenceWidth
    inputWidth,            \* single view: inputWidth
    sPending,              \* single view: measureWidth calls waiting on nextTick
    sSurfaceCalls,         \* single view: uses of measurementRef in the last pass
    mFontSignal,           \* multi view: document.fonts.ready promise
    mFontLoaded,           \* multi view: fontLoaded
    textAreas,             \* multi view: textAreas
    mReferenceCharCount,   \* multi view: referenceCharCount
    mReferenceWidth,       \* multi view: referenceWidth
    mPending,              \* multi view: measureWidth(index) calls waiting on nextTick
    mSurfaceCalls,         \* multi view: uses of measurementRefs[i] in its last pass
    mEdits,                \* multi view: input events handled so far
    cUnits,                \* classifier on its own: the string, as UTF-16 code units
    cResult                \* classifier on its own: what countCharacters returned

sVars == <<sFontSignal, sFontLoaded, inputText, sReferenceCharCount,
           sReferenceWidth, inputWidth, sPending, sSurfaceCalls>>
mVars == <<mFontSignal, mFontLoaded, textAreas, mReferenceCharCount,
           mReferenceWidth, mPending, mSurfaceCalls, mEdits>>
cVars == <<cUnits, cResult>>
vars == <<route, sVars, mVars, cVars>>

----------------------------------------------------------------------------
(* Bounds of the model *)

\* largest reference count a user types (besides the default)
MaxCount == 2
\* measureWidth calls that may wait on nextTick at once
MaxPending == 4
\* input events the multi-field view handles in one run
MaxEdits == 2
\* longest string handed to countCharacters on its own, in UTF-16 code units
MaxUnits == 3

----------------------------------------------------------------------------
(* Program constants *)

EM_TO_PX == 16
maxLength == 300
DefaultReferenceCharCount == 35

\* code points
LF == 10
Digit1 == 49
HiraganaA == 12354

Repeat(c, n) == [k \in 1..n |-> c]

Kana10 == <<12354, 12356, 12358, 12360, 12362, 12363, 12365, 12367, 12369, 12371>>
Digits10 == <<49, 50, 51, 52, 53, 54, 55, 56, 57, 48>>

\* default of inputText
SingleDefaultText ==
    Kana10 \o Kana10 \o Kana10 \o SubSeq(Kana10, 1, 5) \o <<LF>>
    \o Digits10 \o Digits10 \o Digits10 \o Digits10 \o Digits10 \o Digits10

\* defaults of textAreas[0..2].text
MultiDefaultText(i) ==
    CASE i = 0 -> Kana10 \o Digits10
      [] i = 1 -> Kana10 \o Kana10 \o Kana10 \o SubSeq(Kana10, 1, 5)
      [] i = 2 -> Kana10 \o Digits10 \o Kana10 \o Digits10 \o <<LF>>
                  \o Kana10 \o Digits10 \o Kana10 \o Digits10 \o SubSeq(Kana10, 1, 5)

----------------------------------------------------------------------------
(* Inputs *)

\* texts a user enters: empty; as wide as one and as two reference characters;
\* one empty line after another; three lines, the middle one the widest.
\* The textarea's maxlength caps them at maxLength.
TextInputs ==
    {t \in { <<>>,
             <<HiraganaA>>,
             <<HiraganaA, HiraganaA>>,
             <<LF>>,
             <<Digit1, LF, HiraganaA, HiraganaA, LF, HiraganaA>> } : Len(t) <= maxLength}

\* the single-field view is also given 35 half-width characters
SingleTextInputs ==
    TextInputs \cup {t \in {Repeat(Digit1, DefaultReferenceCharCount)} : Len(t) <= maxLength}

\* what v-model.number hands over from the number input
CountInputs == (-1 .. MaxCount) \cup {DefaultReferenceCharCount}

Fields == 0 .. 2

----------------------------------------------------------------------------
(* Host rendering *)

\* [぀-ゟ゠-ヿ一-鿿]
IsFullWidth(c) ==
    \/ c >= 12352 /\ c <= 12447
    \/ c >= 12448 /\ c <= 12543
    \/ c >= 19968 /\ c <= 40959

\* the font the measurement spans render with: 'Noto Sans JP' once the
\* font promise has resolved, the sans-serif fallback otherwise
FontInUse(signal) == IF signal = "resolved" THEN "NotoSansJP" ELSE "sans-serif"

\* advance of one code point in px
CharWidth(font, c) ==
    IF font = "NotoSansJP"
    THEN IF IsFullWidth(c) THEN 16 ELSE 8
    ELSE IF IsFullWidth(c) THEN 15 ELSE 9

\* sum of the advances of line[lo..hi], taken by halves so that a long line
\* is evaluated in few nested steps
RECURSIVE AdvanceSum(_, _, _, _)
AdvanceSum(font, line, lo, hi) ==
    IF lo > hi THEN 0
    ELSE IF lo = hi THEN CharWidth(font, line[lo])
    ELSE AdvanceSum(font, line, lo, (lo + hi) \div 2)
         + AdvanceSum(font, line, ((lo + hi) \div 2) + 1, hi)

\* getBoundingClientRect().width of a white-space: pre span holding `line`
BoundingWidth(font, line) == AdvanceSum(font, line, 1, Len(line))

----------------------------------------------------------------------------
(* Pure parts of the views *)

\* String.prototype.split('\n')
RECURSIVE Split(_)
Split(text) ==
    IF \A k \in 1..Len(text) : text[k] # LF THEN <<text>>
    ELSE LET p == CHOOSE k \in 1..Len(text) :
                      text[k] = LF /\ \A j \in 1..(k - 1) : text[j] # LF
         IN  <<SubSeq(text, 1, p - 1)>> \o Split(SubSeq(text, p + 1, Len(text)))

\* mutant of MaxLineWidth: every line overwrites maxWidth, the last one wins
RECURSIVE MaxLineWidthLast(_, _, _)
MaxLineWidthLast(font, lines, maxWidth) ==
    IF lines = <<>> THEN maxWidth
    ELSE MaxLineWidthLast(font, Tail(lines), BoundingWidth(font, Head(lines)))

\* the loop over lines: keeps the larger of maxWidth and each lineWidth
RECURSIVE MaxLineWidth(_, _, _)
MaxLineWidth(font, lines, maxWidth) ==
    IF lines = <<>> THEN maxWidth
    ELSE LET lineWidth == BoundingWidth(font, Head(lines))
         IN  MaxLineWidth(font, Tail(lines),
                          IF lineWidth > maxWidth THEN lineWidth ELSE maxWidth)

\* 'あ'.repeat(referenceCharCount)
referenceText(count) == Repeat(HiraganaA, count)

theoreticalReferenceWidth(count) == EM_TO_PX * count

\* mutant of ClampCount: the test is < 0, so 0 passes through
ClampCountBelowZero(v) == IF v < 0 THEN 1 ELSE v

\* if (referenceCharCount.value < 1) referenceCharCount.value = 1
ClampCount(v) == IF v < 1 THEN 1 ELSE v

\* the loop of countCharacters over text[lo..hi]: each code point is counted
\* as full-width if the range test matches it and as half-width otherwise.
\* The code points are taken by halves so that a long text is evaluated in
\* few nested steps.
RECURSIVE CountLoop(_, _, _, _)
CountLoop(text, lo, hi, matches) ==
    IF lo > hi THEN 0
    ELSE IF lo = hi THEN (IF IsFullWidth(text[lo]) = matches THEN 1 ELSE 0)
    ELSE CountLoop(text, lo, (lo + hi) \div 2, matches)
         + CountLoop(text, ((lo + hi) \div 2) + 1, hi, matches)

countCharacters(text) ==
    [fullWidth |-> CountLoop(text, 1, Len(text), TRUE),
     halfWidth |-> CountLoop(text, 1, Len(text), FALSE)]

\* a percentage n/d, as (width / maxWidth) * 100 computes it
Percent(width, maxWidth) == [n |-> width * 100, d |-> maxWidth]
Max(a, b) == IF a >= b THEN a ELSE b

referenceBarWidth ==
    LET maxWidth == Max(sReferenceWidth, inputWidth)
    IN  IF maxWidth > 0 THEN Percent(sReferenceWidth, maxWidth) ELSE Percent(0, 1)

\* mutant of inputBarWidth: normalised by referenceWidth, not by the larger
inputBarWidthByReference ==
    IF sReferenceWidth > 0 THEN Percent(inputWidth, sReferenceWidth) ELSE Percent(0, 1)

inputBarWidth ==
    LET maxWidth == Max(sReferenceWidth, inputWidth)
    IN  IF maxWidth > 0 THEN Percent(inputWidth, maxWidth) ELSE Percent(0, 1)

\* width the reference bar is laid out with: its inline style
ReferenceBarRendered == referenceBarWidth

\* width the input bar is laid out with: the inline style, unless the bar has
\* class `empty`, whose rule is width: 100% !important
InputBarRendered == IF inputWidth = 0 THEN Percent(1, 1) ELSE inputBarWidth

----------------------------------------------------------------------------
(* Single-field view *)

\* the second half of measureWidth: the input text on measurementRef
SingleMeasureInput(font, text) ==
    IF text # <<>>
    THEN LET lines == Split(text)
         IN  [width |-> MaxLineWidth(font, lines, 0), calls |-> Len(lines)]
    ELSE [width |-> 0, calls |-> 0]

SingleInit ==
    /\ sFontSignal = "pending"
    /\ sFontLoaded = FALSE
    /\ inputText = SingleDefaultText
    /\ sReferenceCharCount = DefaultReferenceCharCount
    /\ sReferenceWidth = 0
    /\ inputWidth = 0
    /\ sPending = 0
    /\ sSurfaceCalls = 0

\* measureWidth() up to its await: the rest is queued
SingleCallMeasureWidth == sPending' = sPending + 1

\* onMounted, try branch: the load promise resolves
SingleFontResolved ==
    /\ route = "single"
    /\ sFontSignal = "pending"
    /\ sFontSignal' = "resolved"
    /\ sFontLoaded' = TRUE
    /\ SingleCallMeasureWidth
    /\ UNCHANGED <<route, inputText, sReferenceCharCount, sReferenceWidth,
                   inputWidth, sSurfaceCalls, mVars, cVars>>

\* mutant of SingleFontRejected: the catch branch does not call measureWidth
SingleFontRejectedNoMeasure ==
    /\ route = "single"
    /\ sFontSignal = "pending"
    /\ sFontSignal' = "rejected"
    /\ sFontLoaded' = TRUE
    /\ UNCHANGED <<route, inputText, sReferenceCharCount, sReferenceWidth,
                   inputWidth, sPending, sSurfaceCalls, mVars, cVars>>

\* onMounted, catch branch: the load promise rejects
SingleFontRejected ==
    /\ route = "single"
    /\ sFontSignal = "pending"
    /\ sFontSignal' = "rejected"
    /\ sFontLoaded' = TRUE
    /\ SingleCallMeasureWidth
    /\ UNCHANGED <<route, inputText, sReferenceCharCount, sReferenceWidth,
                   inputWidth, sSurfaceCalls, mVars, cVars>>

\* mutant of SingleHandleInput: the pass runs inside the handler
SingleHandleInputSync(t) ==
    /\ route = "single"
    /\ sPending < MaxPending
    /\ inputText' = t
    /\ LET m == SingleMeasureInput(FontInUse(sFontSignal), t)
       IN  /\ sReferenceWidth' = BoundingWidth(FontInUse(sFontSignal),
                                               referenceText(sReferenceCharCount))
           /\ inputWidth' = m.width
           /\ sSurfaceCalls' = m.calls
    /\ UNCHANGED <<route, sFontSignal, sFontLoaded, sReferenceCharCount,
                   sPending, mVars, cVars>>

\* the textarea's input event: v-model writes inputText, then handleInput
SingleHandleInput(t) ==
    /\ route = "single"
    /\ sPending < MaxPending
    /\ inputText' = t
    /\ SingleCallMeasureWidth
    /\ UNCHANGED <<route, sFontSignal, sFontLoaded, sReferenceCharCount,
                   sReferenceWidth, inputWidth, sSurfaceCalls, mVars, cVars>>

\* the number input's input event: v-model.number writes referenceCharCount,
\* then handleReferenceCharCountChange
SingleHandleReferenceCharCountChange(v) ==
    /\ route = "single"
    /\ sPending < MaxPending
    /\ sReferenceCharCount' = ClampCount(v)
    /\ SingleCallMeasureWidth
    /\ UNCHANGED <<route, sFontSignal, sFontLoaded, inputText,
                   sReferenceWidth, inputWidth, sSurfaceCalls, mVars, cVars>>

\* measureWidth after its await nextTick()
SingleMeasureWidth ==
    /\ route = "single"
    /\ sPending > 0
    /\ sPending' = sPending - 1
    /\ LET font == FontInUse(sFontSignal)
           m == SingleMeasureInput(font, inputText)
       IN  /\ sReferenceWidth' = BoundingWidth(font, referenceText(sReferenceCharCount))
           /\ inputWidth' = m.width
           /\ sSurfaceCalls' = m.calls
    /\ UNCHANGED <<route, sFontSignal, sFontLoaded, inputText,
                   sReferenceCharCount, mVars, cVars>>

SingleNext ==
    \/ SingleFontResolved
    \/ SingleFontRejected
    \/ \E t \in SingleTextInputs : SingleHandleInput(t)
    \/ \E v \in CountInputs : SingleHandleReferenceCharCountChange(v)
    \/ SingleMeasureWidth

----------------------------------------------------------------------------
(* Multi-field view *)

MultiInit ==
    /\ mFontSignal = "pending"
    /\ mFontLoaded = FALSE
    /\ textAreas = [i \in Fields |->
                      [text |-> MultiDefaultText(i), width |-> 0, fullWidthCount |-> 0,
                       halfWidthCount |-> 0, exceedsReference |-> FALSE]]
    /\ mReferenceCharCount = DefaultReferenceCharCount
    /\ mReferenceWidth = 0
    /\ mPending = <<>>
    /\ mSurfaceCalls = [i \in Fields |-> 0]
    /\ mEdits = 0

\* textAreas.value.forEach((_, index) => measureWidth(index)): each call
\* runs up to its await, the rest is queued in call order
MultiMeasureAll == mPending' = mPending \o <<0, 1, 2>>

\* onMounted, try branch: document.fonts.ready resolves
MultiFontResolved ==
    /\ route = "multi"
    /\ mFontSignal = "pending"
    /\ mFontSignal' = "resolved"
    /\ mFontLoaded' = TRUE
    /\ MultiMeasureAll
    /\ UNCHANGED <<route, textAreas, mReferenceCharCount, mReferenceWidth,
                   mSurfaceCalls, mEdits, sVars, cVars>>

\* onMounted, catch branch: document.fonts.ready rejects
MultiFontRejected ==
    /\ route = "multi"
    /\ mFontSignal = "pending"
    /\ mFontSignal' = "rejected"
    /\ mFontLoaded' = TRUE
    /\ UNCHANGED <<route, textAreas, mReferenceCharCount, mReferenceWidth,
                   mPending, mSurfaceCalls, mEdits, sVars, cVars>>

\* textarea i's input event (rendered under v-else of !fontLoaded): v-model
\* writes textarea.text, then handleInput(index)
MultiHandleInput(i, t) ==
    /\ route = "multi"
    /\ mFontLoaded
    /\ Len(mPending) < MaxPending
    /\ mEdits < MaxEdits
    /\ mEdits' = mEdits + 1
    /\ textAreas' = [textAreas EXCEPT ![i].text = t]
    /\ mPending' = Append(mPending, i)
    /\ UNCHANGED <<route, mFontSignal, mFontLoaded, mReferenceCharCount,
                   mReferenceWidth, mSurfaceCalls, sVars, cVars>>

\* mutant of MultiHandleReferenceCharCountChange: the handler clamps the count
\* and schedules no pass
MultiHandleReferenceCharCountChangeNoMeasure(v) ==
    /\ route = "multi"
    /\ mFontLoaded
    /\ Len(mPending) + 3 <= MaxPending
    /\ mEdits < MaxEdits
    /\ mEdits' = mEdits + 1
    /\ mReferenceCharCount' = ClampCount(v)
    /\ UNCHANGED <<route, mFontSignal, mFontLoaded, textAreas,
                   mReferenceWidth, mPending, mSurfaceCalls, sVars, cVars>>

\* the number input's input event (rendered under v-else of !fontLoaded)
MultiHandleReferenceCharCountChange(v) ==
    /\ route = "multi"
    /\ mFontLoaded
    /\ Len(mPending) + 3 <= MaxPending
    /\ mEdits < MaxEdits
    /\ mEdits' = mEdits + 1
    /\ mReferenceCharCount' = ClampCount(v)
    /\ MultiMeasureAll
    /\ UNCHANGED <<route, mFontSignal, mFontLoaded, textAreas,
                   mReferenceWidth, mSurfaceCalls, sVars, cVars>>

\* mutant of MultiMeasureField: the overflow test is >=
MultiMeasureFieldGe(font, textarea, count) ==
    LET width == MaxLineWidth(font, Split(textarea.text), 0)
        counted == countCharacters(textarea.text)
    IN  [text |-> textarea.text,
         width |-> width,
         fullWidthCount |-> counted.fullWidth,
         halfWidthCount |-> counted.halfWidth,
         exceedsReference |-> (width >= theoreticalReferenceWidth(count))]

\* what measureWidth(index) stores in textAreas[index]
MultiMeasureField(font, textarea, count) ==
    LET lines == Split(textarea.text)
        width == MaxLineWidth(font, lines, 0)
        counted == countCharacters(textarea.text)
    IN  [text |-> textarea.text,
         width |-> width,
         fullWidthCount |-> counted.fullWidth,
         halfWidthCount |-> counted.halfWidth,
         exceedsReference |-> (width > theoreticalReferenceWidth(count))]

\* mutant of MultiMeasureWidth: the pass re-derives every field, not only
\* textAreas[index]
MultiMeasureWidthEveryField ==
    /\ route = "multi"
    /\ mPending # <<>>
    /\ mReferenceWidth' = BoundingWidth(FontInUse(mFontSignal),
                                        referenceText(mReferenceCharCount))
    /\ textAreas' = [i \in Fields |->
                       MultiMeasureField(FontInUse(mFontSignal), textAreas[i],
                                         mReferenceCharCount)]
    /\ mSurfaceCalls' = [i \in Fields |-> Len(Split(textAreas[i].text))]
    /\ mPending' = Tail(mPending)
    /\ UNCHANGED <<route, mFontSignal, mFontLoaded, mReferenceCharCount, mEdits, sVars, cVars>>

\* measureWidth(index) after its await nextTick()
MultiMeasureWidth ==
    /\ route = "multi"
    /\ mPending # <<>>
    /\ LET index == Head(mPending)
           font == FontInUse(mFontSignal)
       IN  /\ mReferenceWidth' = BoundingWidth(font, referenceText(mReferenceCharCount))
           /\ textAreas' = [textAreas EXCEPT
                              ![index] = MultiMeasureField(font, textAreas[index],
                                                           mReferenceCharCount)]
           /\ mSurfaceCalls' = [mSurfaceCalls EXCEPT
                                  ![index] = Len(Split(textAreas[index].text))]
    /\ mPending' = Tail(mPending)
    /\ UNCHANGED <<route, mFontSignal, mFontLoaded, mReferenceCharCount, mEdits, sVars, cVars>>

MultiNext ==
    \/ MultiFontResolved
    \/ MultiFontRejected
    \/ \E i \in Fields, t \in TextInputs : MultiHandleInput(i, t)
    \/ \E v \in CountInputs : MultiHandleReferenceCharCountChange(v)
    \/ MultiMeasureWidth

----------------------------------------------------------------------------
(* countCharacters on its own *)

\* code units at and around the ends of the three ranges of the test, an
\* ASCII letter, a surrogate pair (U+1F600), and a full-width Latin letter
UnitAlphabet ==
    {65,
     12351, 12352, 12447, 12448, 12543, 12544,
     19967, 19968, 40959, 40960,
     55357, 56832,
     65313}

RECURSIVE UnitStrings(_)
UnitStrings(n) ==
    IF n = 0 THEN {<<>>}
    ELSE LET shorter == UnitStrings(n - 1)
         IN  shorter \cup {Append(u, c) : u \in {x \in shorter : Len(x) = n - 1},
                                          c \in UnitAlphabet}

IsHighSurrogate(u) == u >= 55296 /\ u <= 56319
IsLowSurrogate(u) == u >= 56320 /\ u <= 57343

\* mutant of StringIterator: one step per code unit, as an indexed loop does
StringIteratorByUnit(units) == units

\* for (const char of text): the string iterator yields one code point per
\* step, taking a high surrogate and the low surrogate after it together and
\* any other code unit by itself
RECURSIVE StringIterator(_)
StringIterator(units) ==
    IF units = <<>> THEN <<>>
    ELSE IF Len(units) >= 2 /\ IsHighSurrogate(units[1]) /\ IsLowSurrogate(units[2])
         THEN <<65536 + (units[1] - 55296) * 1024 + (units[2] - 56320)>>
              \o StringIterator(SubSeq(units, 3, Len(units)))
         ELSE <<units[1]>> \o StringIterator(Tail(units))

NotCalled == [fullWidth |-> -1, halfWidth |-> -1]

CountInit ==
    /\ route = "none"
    /\ SingleInit
    /\ MultiInit
    /\ cUnits \in UnitStrings(MaxUnits)
    /\ cResult = NotCalled

\* countCharacters(text) is called and returns
CountCall ==
    /\ route = "none"
    /\ cResult = NotCalled
    /\ cResult' = countCharacters(StringIterator(cUnits))
    /\ UNCHANGED <<route, sVars, mVars, cUnits>>

CountNext == CountCall

SpecCount == CountInit /\ [][CountNext]_vars

----------------------------------------------------------------------------
(* The application: the router mounts one of the two views *)

Init ==
    /\ route \in {"single", "multi"}
    /\ SingleInit
    /\ MultiInit
    /\ cUnits = <<>>
    /\ cResult = NotCalled

Next == SingleNext \/ MultiNext

Spec == Init /\ [][Next]_vars

----------------------------------------------------------------------------
(* What a measurement is expected to store, stated without the loop *)

LineWidths(font, text) ==
    LET lines == Split(text)
    IN  {BoundingWidth(font, lines[k]) : k \in 1..Len(lines)}

\* w is the width of the widest line of text
IsWidestLine(w, font, text) ==
    /\ w >= 0
    /\ \A v \in LineWidths(font, text) : w >= v
    /\ \E v \in LineWidths(font, text) : w = v

sFont == FontInUse(sFontSignal)
mFont == FontInUse(mFontSignal)

\* the widths w and r are those of text and of count reference characters
SingleMeasuredAs(w, r, text, count) ==
    /\ IsWidestLine(w, sFont, text)
    /\ r = BoundingWidth(sFont, referenceText(count))

\* the single view's stored widths are those of the current text and count
SingleMeasured ==
    SingleMeasuredAs(inputWidth, sReferenceWidth, inputText, sReferenceCharCount)

\* a pass for field i is waiting
InPending(i) == \E k \in 1..Len(mPending) : mPending[k] = i

\* the values of the record f are those derived from text and count
FieldMeasuredAs(f, text, count) ==
    /\ IsWidestLine(f.width, mFont, text)
    /\ f.fullWidthCount = Cardinality({k \in 1..Len(text) : IsFullWidth(text[k])})
    /\ f.halfWidthCount = Cardinality({k \in 1..Len(text) : ~IsFullWidth(text[k])})
    /\ f.exceedsReference = (f.width > EM_TO_PX * count)

\* field i's stored values are those derived from its current text and the count
FieldMeasured(i) == FieldMeasuredAs(textAreas[i], textAreas[i].text, mReferenceCharCount)

----------------------------------------------------------------------------
(* C1 *)

\* C1: single-field view, fail-open.  Once the font-load call has rejected, the
\* view is ready (fontLoaded is true) and the initial measurement pass has been
\* scheduled: either a pass is still waiting, or the stored widths are those
\* of the current text and reference count.
C1_SingleFailOpen ==
    (route = "single" /\ sFontSignal = "rejected")
        => /\ sFontLoaded
           /\ sPending > 0 \/ SingleMeasured

\* the load rejected, the initial pass ran on the default text
C1_Witness ==
    /\ route = "single"
    /\ sFontSignal = "rejected"
    /\ sFontLoaded
    /\ sPending = 0
    /\ inputText = SingleDefaultText
    /\ sReferenceCharCount = DefaultReferenceCharCount
    /\ inputWidth > 0
    /\ sReferenceWidth > 0

----------------------------------------------------------------------------
(* C2 *)

\* C2: multi-field view.  Once the view is ready, whether the readiness signal
\* resolved or rejected, every field has had its initial pass: a pass for it
\* is waiting, or its width, fullWidthCount, halfWidthCount and
\* exceedsReference are those derived from its text.
C2_InitialPassEveryField ==
    (route = "multi" /\ mFontLoaded)
        => \A i \in Fields : InPending(i) \/ FieldMeasured(i)

----------------------------------------------------------------------------
(* C3 *)

\* C3: in each view, while fontLoaded is false no measurement pass runs and
\* no stored width is written.
C3_NoMeasurementWhileLoading ==
    [][ /\ (route = "single" /\ ~sFontLoaded)
            => /\ ~SingleMeasureWidth
               /\ UNCHANGED <<inputWidth, sReferenceWidth>>
        /\ (route = "multi" /\ ~mFontLoaded)
            => /\ ~MultiMeasureWidth
               /\ UNCHANGED <<mReferenceWidth>>
               /\ \A i \in Fields : textAreas'[i].width = textAreas[i].width
      ]_vars

----------------------------------------------------------------------------
(* C4 *)

\* C4: multi-field view.  For every field with no measurement pass waiting,
\* exceedsReference is true exactly when the field's width is strictly greater
\* than 16 x referenceCharCount; a width equal to it does not exceed.
C4_ExceedsIffStrictlyWider ==
    route = "multi"
        => \A i \in Fields :
              ~InPending(i)
                  => (textAreas[i].exceedsReference
                        <=> textAreas[i].width > 16 * mReferenceCharCount)

\* a measured field exactly as wide as the theoretical reference width, not
\* flagged; another one wider than it, flagged
C4_Witness ==
    /\ route = "multi"
    /\ mPending = <<>>
    /\ \E i \in Fields :
          /\ mSurfaceCalls[i] > 0
          /\ textAreas[i].width = 16 * mReferenceCharCount
          /\ ~textAreas[i].exceedsReference
    /\ \E j \in Fields :
          /\ textAreas[j].width > 16 * mReferenceCharCount
          /\ textAreas[j].exceedsReference

----------------------------------------------------------------------------
(* C5 *)

\* C5: in both views a reference count of 0 or less handed to
\* handleReferenceCharCountChange leaves referenceCharCount at 1 and the
\* theoretical reference width at 16, and referenceCharCount is at least 1
\* in every state, so every pass observes a count of at least 1.
C5_ReferenceCountClamp ==
    /\ [](sReferenceCharCount >= 1 /\ mReferenceCharCount >= 1)
    /\ [][ \A v \in CountInputs :
              v < 1 =>
                /\ SingleHandleReferenceCharCountChange(v)
                     => /\ sReferenceCharCount' = 1
                        /\ theoreticalReferenceWidth(sReferenceCharCount') = 16
                /\ MultiHandleReferenceCharCountChange(v)
                     => /\ mReferenceCharCount' = 1
                        /\ theoreticalReferenceWidth(mReferenceCharCount') = 16
         ]_vars

\* the count has been brought to 1 and a pass has measured one reference
\* character against it
C5_Witness ==
    /\ route = "multi"
    /\ mReferenceCharCount = 1
    /\ mPending = <<>>
    /\ mEdits > 0
    /\ mReferenceWidth = BoundingWidth(mFont, <<HiraganaA>>)
    /\ theoreticalReferenceWidth(mReferenceCharCount) = 16

----------------------------------------------------------------------------
(* C6 *)

\* C6: in both views, a field measured while its text is the empty string has
\* a stored width of 0 and its measurement element was not used in that pass
\* (no textContent written, no getBoundingClientRect read).
C6_EmptyTextSkipsSurface ==
    /\ (route = "single" /\ inputText = <<>> /\ sPending = 0 /\ sFontLoaded)
           => (inputWidth = 0 /\ sSurfaceCalls = 0)
    /\ route = "multi"
           => \A i \in Fields :
                 (textAreas[i].text = <<>> /\ ~InPending(i))
                     => (textAreas[i].width = 0 /\ mSurfaceCalls[i] = 0)

----------------------------------------------------------------------------
(* C7 *)

\* C7: multi-field view.  A text edit of field i, and a measurement pass for
\* field i, leave the text, width, fullWidthCount, halfWidthCount and
\* exceedsReference of every other field and referenceCharCount unchanged.
C7_FieldIndependence ==
    [][ \A i \in Fields :
           ( \/ \E t \in TextInputs : MultiHandleInput(i, t)
             \/ (mPending # <<>> /\ Head(mPending) = i /\ MultiMeasureWidth) )
           => /\ \A j \in Fields \ {i} : textAreas'[j] = textAreas[j]
              /\ mReferenceCharCount' = mReferenceCharCount
      ]_vars

\* field 0 was edited and measured while field 1, edited too, still waits
\* with the values of its previous text
C7_Witness ==
    /\ route = "multi"
    /\ mEdits >= 2
    /\ textAreas[0].text = <<HiraganaA>>
    /\ FieldMeasured(0)
    /\ mPending = <<1>>
    /\ textAreas[1].text = <<>>
    /\ textAreas[1].width > 0

----------------------------------------------------------------------------
(* C8 *)

\* C8 as stated: when handleInput or handleReferenceCharCountChange returns,
\* the stored widths and flags are those of the edited text and count.  The
\* handler is called in a ready view with no pass waiting, whose stored
\* values are those of the text and count before the edit.
C8_MeasuredWhenHandlerReturns ==
    [][ /\ \A t \in SingleTextInputs :
              (sFontLoaded /\ sPending = 0 /\ SingleMeasured /\ SingleHandleInput(t))
                 => SingleMeasuredAs(inputWidth', sReferenceWidth', t, sReferenceCharCount)
        /\ \A v \in CountInputs :
              (sFontLoaded /\ sPending = 0 /\ SingleMeasured
                 /\ SingleHandleReferenceCharCountChange(v))
                 => SingleMeasuredAs(inputWidth', sReferenceWidth', inputText,
                                     sReferenceCharCount')
        /\ \A i \in Fields, t \in TextInputs :
              (mPending = <<>> /\ FieldMeasured(i) /\ MultiHandleInput(i, t))
                 => FieldMeasuredAs(textAreas'[i], t, mReferenceCharCount)
        /\ \A v \in CountInputs :
              (mPending = <<>> /\ (\A i \in Fields : FieldMeasured(i))
                 /\ MultiHandleReferenceCharCountChange(v))
                 => \A i \in Fields :
                       FieldMeasuredAs(textAreas'[i], textAreas[i].text,
                                       mReferenceCharCount')
      ]_vars

\* C8, amended: an input handler only schedules the measurement.  When it
\* returns, the stored widths and flags are unchanged and a pass is waiting
\* for every field it concerns; the pass, when it runs, stores the values of
\* the text and count current at that moment.
C8_MeasurementDeferred ==
    [][ /\ ( \/ \E t \in SingleTextInputs : SingleHandleInput(t)
             \/ \E v \in CountInputs : SingleHandleReferenceCharCountChange(v) )
           => /\ UNCHANGED <<inputWidth, sReferenceWidth>>
              /\ sPending' = sPending + 1
        /\ SingleMeasureWidth
              => SingleMeasuredAs(inputWidth', sReferenceWidth', inputText,
                                  sReferenceCharCount)
        /\ \A i \in Fields :
              (\E t \in TextInputs : MultiHandleInput(i, t))
                 => /\ UNCHANGED mReferenceWidth
                    /\ \A j \in Fields :
                          /\ textAreas'[j].width = textAreas[j].width
                          /\ textAreas'[j].fullWidthCount = textAreas[j].fullWidthCount
                          /\ textAreas'[j].halfWidthCount = textAreas[j].halfWidthCount
                          /\ textAreas'[j].exceedsReference = textAreas[j].exceedsReference
                    /\ InPending(i)'
        /\ (\E v \in CountInputs : MultiHandleReferenceCharCountChange(v))
              => /\ UNCHANGED <<mReferenceWidth, textAreas>>
                 /\ \A i \in Fields : InPending(i)'
        /\ \A i \in Fields :
              (mPending # <<>> /\ Head(mPending) = i /\ MultiMeasureWidth)
                 => /\ FieldMeasuredAs(textAreas'[i], textAreas[i].text,
                                       mReferenceCharCount)
                    /\ mReferenceWidth'
                          = BoundingWidth(mFont, referenceText(mReferenceCharCount))
      ]_vars

\* a handler has returned in the ready view: the text is the edited one, the
\* stored width is still that of the text before, and the pass is waiting
C8_Witness ==
    /\ route = "single"
    /\ sFontLoaded
    /\ inputText = <<HiraganaA>>
    /\ sPending = 1
    /\ inputWidth > 0
    /\ ~IsWidestLine(inputWidth, sFont, inputText)

----------------------------------------------------------------------------
(* C9 *)

\* C9: a measurement pass over a non-empty text stores the width of its
\* widest line: a width of one of the lines the text splits into on line
\* breaks, not smaller than the width of any of them, and not negative.
C9_StoresWidestLine ==
    [][ /\ (SingleMeasureWidth /\ inputText # <<>>)
           => IsWidestLine(inputWidth', sFont, inputText)
        /\ \A i \in Fields :
              (mPending # <<>> /\ Head(mPending) = i /\ MultiMeasureWidth
                 /\ textAreas[i].text # <<>>)
                 => IsWidestLine(textAreas'[i].width, mFont, textAreas[i].text)
      ]_vars

\* three lines of widths 8, 32 and 16 were measured as 32
C9_Witness ==
    /\ route = "single"
    /\ sFontSignal = "resolved"
    /\ sPending = 0
    /\ inputText = <<Digit1, LF, HiraganaA, HiraganaA, LF, HiraganaA>>
    /\ LineWidths(sFont, inputText) = {8, 32, 16}
    /\ inputWidth = 32

----------------------------------------------------------------------------
(* C10 *)

\* p is k percent
IsPercent(p, k) == p.n = k * p.d

\* C10 as stated: in the ready single-field view each bar renders at
\* own width / max(referenceWidth, inputWidth) x 100 percent, and both
\* render at 0% when both widths are 0.
C10_BarsRenderNormalized ==
    (route = "single" /\ sFontLoaded)
        => LET maxWidth == Max(sReferenceWidth, inputWidth)
           IN  IF maxWidth > 0
               THEN /\ ReferenceBarRendered.n * maxWidth
                          = sReferenceWidth * 100 * ReferenceBarRendered.d
                    /\ InputBarRendered.n * maxWidth
                          = inputWidth * 100 * InputBarRendered.d
               ELSE IsPercent(ReferenceBarRendered, 0) /\ IsPercent(InputBarRendered, 0)

\* C10, amended: referenceBarWidth and inputBarWidth are
\* own width / max(referenceWidth, inputWidth) x 100, the longer of the two
\* 100 and the other within [0, 100], and both 0 when both widths are 0.  The
\* reference bar renders at referenceBarWidth percent.  The input bar renders
\* at inputBarWidth percent when inputWidth > 0, and at 100% whenever
\* inputWidth is 0, also when both widths are 0.
C10_BarsAmended ==
    route = "single"
        => LET maxWidth == Max(sReferenceWidth, inputWidth)
           IN  /\ sReferenceWidth >= 0 /\ inputWidth >= 0
               /\ referenceBarWidth.d > 0 /\ inputBarWidth.d > 0
               /\ maxWidth > 0
                    => /\ referenceBarWidth.n * maxWidth
                             = sReferenceWidth * 100 * referenceBarWidth.d
                       /\ inputBarWidth.n * maxWidth
                             = inputWidth * 100 * inputBarWidth.d
                       /\ sReferenceWidth >= inputWidth => IsPercent(referenceBarWidth, 100)
                       /\ inputWidth >= sReferenceWidth => IsPercent(inputBarWidth, 100)
                       /\ 0 <= referenceBarWidth.n
                       /\ referenceBarWidth.n <= 100 * referenceBarWidth.d
                       /\ 0 <= inputBarWidth.n
                       /\ inputBarWidth.n <= 100 * inputBarWidth.d
               /\ maxWidth = 0
                    => IsPercent(referenceBarWidth, 0) /\ IsPercent(inputBarWidth, 0)
               /\ sFontLoaded
                    => /\ ReferenceBarRendered = referenceBarWidth
                       /\ inputWidth > 0 => InputBarRendered = inputBarWidth
                       /\ inputWidth = 0 => IsPercent(InputBarRendered, 100)

\* widths 560 and 280 measured: the bars are at 100% and 50%
C10_Witness ==
    /\ route = "single"
    /\ sFontLoaded
    /\ sPending = 0
    /\ sReferenceWidth = 560
    /\ inputWidth = 280
    /\ IsPercent(ReferenceBarRendered, 100)
    /\ IsPercent(InputBarRendered, 50)

----------------------------------------------------------------------------
(* C11 *)

\* U+3040-U+309F, U+30A0-U+30FF, U+4E00-U+9FFF
FullWidthRanges == (12352 .. 12447) \cup (12448 .. 12543) \cup (19968 .. 40959)

\* C11: for every string, countCharacters returns as fullWidth the number of
\* its code points in U+3040-U+309F, U+30A0-U+30FF or U+4E00-U+9FFF and as
\* halfWidth the number of all its other code points, a surrogate pair being
\* one code point; the two add up to the number of code points.  A string of
\* characters of those ranges only gives halfWidth 0, an ASCII-only string
\* gives fullWidth 0, the empty string gives 0 and 0.
C11_CountCharacters ==
    cResult # NotCalled
        => LET n == Len(cUnits)
               pairs == {k \in 1..(n - 1) :
                            IsHighSurrogate(cUnits[k]) /\ IsLowSurrogate(cUnits[k + 1])}
               codePoints == n - Cardinality(pairs)
               full == Cardinality({k \in 1..n : cUnits[k] \in FullWidthRanges})
           IN  /\ cResult.fullWidth = full
               /\ cResult.halfWidth = codePoints - full
               /\ cResult.fullWidth + cResult.halfWidth = codePoints
               /\ (\A k \in 1..n : cUnits[k] \in FullWidthRanges)
                     => (cResult.fullWidth = n /\ cResult.halfWidth = 0)
               /\ (\A k \in 1..n : cUnits[k] < 128)
                     => (cResult.fullWidth = 0 /\ cResult.halfWidth = n)
               /\ cUnits = <<>> => cResult = [fullWidth |-> 0, halfWidth |-> 0]

\* U+1F600 (two code units) followed by U+3040 was counted as one half-width
\* and one full-width character
C11_Witness ==
    /\ cUnits = <<55357, 56832, 12352>>
    /\ cResult = [fullWidth |-> 1, halfWidth |-> 1]

----------------------------------------------------------------------------
(* C12 *)

\* C12: last edit wins.  In the ready state of either view, once no scheduled
\* pass is waiting, nothing stored comes from an earlier text or count:
\* the single view's inputWidth is the widest-line width of the current
\* inputText and its referenceWidth the width of referenceCharCount reference
\* characters; in the multi view, after at least one edit, referenceWidth is
\* the width of referenceCharCount reference characters and every field whose
\* text was edited away from its default holds the width, counts and flag of
\* its current text and the current count.
C12_LastEditWins ==
    /\ (route = "single" /\ sFontLoaded /\ sPending = 0) => SingleMeasured
    /\ (route = "multi" /\ mFontLoaded /\ mEdits > 0 /\ mPending = <<>>)
          => /\ mReferenceWidth = BoundingWidth(mFont, referenceText(mReferenceCharCount))
             /\ \A i \in Fields :
                   textAreas[i].text # MultiDefaultText(i) => FieldMeasured(i)

\* multi view, readiness by rejection (no initial pass): the count was set to
\* one and field 0 to two reference characters, every pass has run; the
\* field holds the width of its two characters in the fallback font and
\* exceeds the reference, referenceWidth is that of one character
C12_Witness ==
    /\ route = "multi"
    /\ mFontSignal = "rejected"
    /\ mEdits = 2
    /\ mPending = <<>>
    /\ mReferenceCharCount = 1
    /\ mReferenceWidth = CharWidth("sans-serif", HiraganaA)
    /\ textAreas[0].text = <<HiraganaA, HiraganaA>>
    /\ textAreas[0].width = 2 * CharWidth("sans-serif", HiraganaA)
    /\ textAreas[0].exceedsReference
    /\ FieldMeasured(0)

====
